---- MODULE Spec2Model ----
(***************************************************************************)
(* Barnsley's fern (src/__main__.py): the chaos-game point generator with  *)
(* its memoised transform, the rescaling of points to pixel coordinates,   *)
(* and the update gate of the Tk application.                              *)
(*                                                                         *)
(* Numbers.  A float is a record [nan, v]: a finite value v (an integer:   *)
(* the model draws only integer-valued floats, which float32 and float64   *)
(* hold and add and multiply exactly in the ranges reached) or NaN, the    *)
(* non-finite value.  NaN propagates through + and *, compares false       *)
(* under < and ==, and cannot be converted by int().  The sign of a zero   *)
(* is not kept: the code observes it nowhere (== and hash identify 0.0     *)
(* and -0.0, int() gives 0 for both).                                      *)
(* The sizes and points given to rescale_points are such that the float32  *)
(* product point * factor is nowhere within rounding error of a whole      *)
(* number, so int() of the exact quotient is int() of the float.           *)
(* A draw of random() and a 'probability' are counted in thirds: the       *)
(* draws 0, 1/3, 2/3 are the values 0..2, a 'probability' of 1 is 3.       *)
(***************************************************************************)
EXTENDS Integers, Sequences, FiniteSets, TLC

VARIABLES
    \* fern_point_generator: one generator object at a time
    pc,                 \* "idle" | "running" | "exhausted"
    options,            \* the config the generator was called with
    number_of_points,   \* its first argument
    point_no,           \* iterations of the for loop done
    current_point,      \* the generator's local current_point
    emitted,            \* the points yielded so far, in order
    draws,              \* the values random() returned, in order
    chosen,             \* the section applied at each step, in order
    uncached,           \* the points form * p + offset computed without the cache
    cache,              \* the lru_cache of __transform, least recently used first
    hit,                \* whether the last call of __transform was a cache hit
    evicted,            \* whether the cache has dropped an entry yet
    runs,               \* calls of fern_point_generator so far
    prev,               \* the previous call: its arguments, draws and output
    \* rescale_points: one generator object at a time
    rpc,                \* "idle" | "running" | "exhausted" | "raised"
    points,             \* the input points
    image_size,         \* (width, height)
    consumed,           \* input points taken so far
    pixels,             \* the pixel coordinates yielded so far, in order
    \* App
    apc,                \* "init" | "mainloop" | "defaults"
    allow_update,       \* App.allow_update
    image,              \* App.image: "None" | "blank" | "drawn"
    tk_vars,            \* which Tk variables hold their default value
    written,            \* variables set_defaults has written so far
    regenerations,      \* images drawn by update during the current handler
    handled,            \* handlers run in the main loop so far
    last                \* the handler that ran last

gen_vars == <<pc, options, number_of_points, point_no, current_point, emitted,
              draws, chosen, uncached, cache, hit, evicted, runs, prev>>
rescale_vars == <<rpc, points, image_size, consumed, pixels>>
app_vars == <<apc, allow_update, image, tk_vars, written, regenerations, handled,
              last>>
vars == <<gen_vars, rescale_vars, app_vars>>

---------------------------------------------------------------------------
(* Bounds of the model *)

MaxRuns == 2
CacheCap == 2

---------------------------------------------------------------------------
(* Floats *)

Fin(v) == [nan |-> FALSE, v |-> v]
NaN == [nan |-> TRUE, v |-> 0]

FAdd(a, b) == IF a.nan \/ b.nan THEN NaN ELSE Fin(a.v + b.v)
FMul(a, b) == IF a.nan \/ b.nan THEN NaN ELSE Fin(a.v * b.v)
FNeg(a) == IF a.nan THEN NaN ELSE Fin(0 - a.v)
FLess(a, b) == ~a.nan /\ ~b.nan /\ a.v < b.v
FEq(a, b) == ~a.nan /\ ~b.nan /\ a.v = b.v

(* glm.vec2 and glm.mat2; glm.mat2(a, b, c, d) has the columns (a, b), (c, d) *)
vec2(x, y) == <<Fin(x), Fin(y)>>
mat2(a, b, c, d) == <<<<Fin(a), Fin(b)>>, <<Fin(c), Fin(d)>>>>

VecAdd(p, q) == <<FAdd(p[1], q[1]), FAdd(p[2], q[2])>>
VecNeg(p) == <<FNeg(p[1]), FNeg(p[2])>>
VecEq(p, q) == FEq(p[1], q[1]) /\ FEq(p[2], q[2])
MatEq(m, k) == VecEq(m[1], k[1]) /\ VecEq(m[2], k[2])
MatVec(m, p) ==
    <<FAdd(FMul(m[1][1], p[1]), FMul(m[2][1], p[2])),
      FAdd(FMul(m[1][2], p[1]), FMul(m[2][2], p[2]))>>

Origin == vec2(0, 0)

---------------------------------------------------------------------------
(* __transform and its lru_cache *)

\* the body of __transform
Transform(form, point, offset) == VecAdd(MatVec(form, point), offset)

\* (a key made of the point alone)
CacheKeyPointOnly(form, point, offset) == <<mat2(0, 0, 0, 0), point, vec2(0, 0)>>
\* the cache key: the call's positional arguments
CacheKey(form, point, offset) == <<form, point, offset>>

\* key equality: == of the arguments, componentwise, so a key that holds a NaN
\* equals no key. (The dictionary also takes an argument that is the very object
\* of a stored key for equal; the value stored under it was computed from that
\* object, so the value returned is the same either way.)
KeyEq(k, l) == MatEq(k[1], l[1]) /\ VecEq(k[2], l[2]) /\ VecEq(k[3], l[3])

\* lru_cache(maxsize=1024)
maxsize == 1024
\* the capacity the model runs the cache with: CacheCap, so that entries are
\* dropped within a few calls
Capacity == IF CacheCap < maxsize THEN CacheCap ELSE maxsize

Hits(c, key) == {i \in 1..Len(c) : KeyEq(c[i].key, key)}

Without(c, i) == [j \in 1..(Len(c) - 1) |-> IF j < i THEN c[j] ELSE c[j + 1]]

\* the value a call returns: the stored one on a hit, the computed one on a miss
CachedResult(c, form, point, offset) ==
    LET key == CacheKey(form, point, offset)
    IN IF Hits(c, key) # {}
       THEN c[CHOOSE i \in Hits(c, key) : TRUE].val
       ELSE Transform(form, point, offset)

\* (a miss that stores the argument instead of the result)
CacheAfterStoresArgument(c, form, point, offset) ==
    LET key == CacheKey(form, point, offset)
    IN IF Hits(c, key) # {}
       THEN LET i == CHOOSE i \in Hits(c, key) : TRUE
            IN Append(Without(c, i), c[i])
       ELSE LET entry == [key |-> key, val |-> point]
            IN IF Len(c) >= Capacity
               THEN Append(Tail(c), entry)
               ELSE Append(c, entry)

\* the cache after the call: a hit becomes the most recently used entry; a miss
\* is stored, the least recently used entry leaving a full cache
CacheAfter(c, form, point, offset) ==
    LET key == CacheKey(form, point, offset)
    IN IF Hits(c, key) # {}
       THEN LET i == CHOOSE i \in Hits(c, key) : TRUE
            IN Append(Without(c, i), c[i])
       ELSE LET entry == [key |-> key, val |-> Transform(form, point, offset)]
            IN IF Len(c) >= Capacity
               THEN Append(Tail(c), entry)
               ELSE Append(c, entry)

IsHit(c, form, point, offset) == Hits(c, CacheKey(form, point, offset)) # {}
Evicts(c, form, point, offset) ==
    ~IsHit(c, form, point, offset) /\ Len(c) >= Capacity

---------------------------------------------------------------------------
(* Inputs *)

SECTIONS == <<"first", "second", "third", "fourth">>

Section(form, offset, probability) ==
    [form |-> form, offset |-> offset, probability |-> probability]

Shear == mat2(1, 1, 0, 1)
Turn == mat2(0, 1, -1, 0)
Unit == mat2(1, 0, 0, 1)

\* thresholds in order, four different maps: the draws give first, second, third
Ordered ==
    [first |-> Section(Shear, vec2(1, 0), Fin(1)),
     second |-> Section(Turn, vec2(0, 1), Fin(2)),
     third |-> Section(Unit, vec2(1, 1), Fin(3)),
     fourth |-> Section(Shear, vec2(0, 1), Fin(0))]
\* thresholds out of order, a 'probability' of fourth above every draw: the
\* draws give first, third, fourth
Unordered ==
    [first |-> Section(Turn, vec2(1, 0), Fin(1)),
     second |-> Section(Shear, vec2(1, 0), Fin(0)),
     third |-> Section(Unit, vec2(0, 1), Fin(2)),
     fourth |-> Section(Unit, vec2(1, 0), Fin(4))]
\* fourth is the identity with no offset: the draws give first, fourth, fourth
Mirror ==
    [first |-> Section(Unit, vec2(1, 1), Fin(1)),
     second |-> Section(Unit, vec2(1, 1), Fin(0)),
     third |-> Section(Unit, vec2(1, 1), Fin(0)),
     fourth |-> Section(Unit, vec2(0, 0), Fin(1))]
\* a non-finite value in an offset and in a threshold: the draws give first,
\* first, third
NonFinite ==
    [first |-> Section(Unit, <<NaN, Fin(1)>>, Fin(2)),
     second |-> Section(Unit, vec2(1, 0), NaN),
     third |-> Section(Turn, vec2(0, 1), Fin(3)),
     fourth |-> Section(Unit, vec2(0, 0), Fin(0))]

Configs == {Ordered, Unordered, Mirror, NonFinite}
PointCounts == {0 - 1, 0, 1, 2}
Values == 0..2

HasNaN(p) == p[1].nan \/ p[2].nan
NonFiniteSection(s) ==
    HasNaN(s.form[1]) \/ HasNaN(s.form[2]) \/ HasNaN(s.offset)
NonFiniteConfig(o) ==
    \E i \in 1..4 : NonFiniteSection(o[SECTIONS[i]])

---------------------------------------------------------------------------
(* fern_point_generator *)

\* (the chain with <= in place of <)
ChooseLessEq(o, value) ==
    IF ~o.first.probability.nan /\ value <= o.first.probability.v THEN "first"
    ELSE IF ~o.second.probability.nan /\ value <= o.second.probability.v THEN "second"
    ELSE IF ~o.third.probability.nan /\ value <= o.third.probability.v THEN "third"
    ELSE "fourth"
\* the branch the if / elif chain takes for a drawn value
Choose(o, value) ==
    IF FLess(Fin(value), o.first.probability) THEN "first"
    ELSE IF FLess(Fin(value), o.second.probability) THEN "second"
    ELSE IF FLess(Fin(value), o.third.probability) THEN "third"
    ELSE "fourth"

\* (the current point for every section)
ArgumentNotNegated(section, p) == p
\* the point handed to __transform: the current point, negated for fourth
Argument(section, p) == IF section = "fourth" THEN VecNeg(p) ELSE p

\* (a range one item longer)
LoopContinuesInclusive(i, n) == i <= n
\* range(number_of_points) has an item left after i iterations
LoopContinues(i, n) == i < n

\* (the point the call before ended on)
StartLeftOver(p) == p
\* the local current_point when the generator's body starts
Start(p) == Origin

NoRun == [valid |-> FALSE, options |-> Ordered, n |-> 0, draws |-> <<>>,
          emitted |-> <<>>]

GenInit ==
    /\ pc = "idle"
    /\ options = Ordered
    /\ number_of_points = 0
    /\ point_no = 0
    /\ current_point = Origin
    /\ emitted = <<>>
    /\ draws = <<>>
    /\ chosen = <<>>
    /\ uncached = <<>>
    /\ cache = <<>>
    /\ hit = FALSE
    /\ evicted = FALSE
    /\ runs = 0
    /\ prev = NoRun

\* fern_point_generator(n, o): a new generator; its body runs to the loop
Call ==
    /\ pc \in {"idle", "exhausted"}
    /\ runs < MaxRuns
    /\ \E o \in Configs, n \in PointCounts :
          /\ options' = o
          /\ number_of_points' = n
    /\ prev' = IF pc = "exhausted"
               THEN [valid |-> TRUE, options |-> options, n |-> number_of_points,
                     draws |-> draws, emitted |-> emitted]
               ELSE prev
    /\ pc' = "running"
    /\ point_no' = 0
    /\ current_point' = Start(current_point)
    /\ emitted' = <<>>
    /\ draws' = <<>>
    /\ chosen' = <<>>
    /\ uncached' = <<>>
    /\ runs' = runs + 1
    /\ UNCHANGED <<cache, hit, evicted>>

\* one iteration of the loop: draw, choose, transform through the cache, yield
Step ==
    /\ pc = "running"
    /\ LoopContinues(point_no, number_of_points)
    /\ \E value \in Values :
          LET section == Choose(options, value)
              form == options[section].form
              offset == options[section].offset
              arg == Argument(section, current_point)
              before == IF uncached = <<>> THEN Origin ELSE uncached[Len(uncached)]
          IN /\ current_point' = CachedResult(cache, form, arg, offset)
             /\ cache' = CacheAfter(cache, form, arg, offset)
             /\ hit' = IsHit(cache, form, arg, offset)
             /\ evicted' = (evicted \/ Evicts(cache, form, arg, offset))
             /\ draws' = Append(draws, value)
             /\ chosen' = Append(chosen, section)
             /\ uncached' = Append(uncached,
                                   Transform(form, Argument(section, before), offset))
    /\ emitted' = Append(emitted, current_point')
    /\ point_no' = point_no + 1
    /\ UNCHANGED <<pc, options, number_of_points, runs, prev>>

\* range(number_of_points) is used up: the generator returns
Return ==
    /\ pc = "running"
    /\ ~LoopContinues(point_no, number_of_points)
    /\ pc' = "exhausted"
    /\ UNCHANGED <<options, number_of_points, point_no, current_point, emitted,
                   draws, chosen, uncached, cache, hit, evicted, runs, prev>>

---------------------------------------------------------------------------
(* rescale_points *)

\* min(image_size)
Smaller(size) == IF size[1] <= size[2] THEN size[1] ELSE size[2]

\* twice the divisor 10.5 of the factor, which keeps the arithmetic in integers:
\* x * factor + width / 2 = (4 * min * x + 21 * width) / 42,  y * factor = 2 * min * y / 21
TwiceDivisor == 21

\* (the quotient rounded down)
ToIntFloor(num, den) == num \div den
\* int() of the quotient num / den, den > 0: the fraction is cut off
ToInt(num, den) == IF num >= 0 THEN num \div den ELSE 0 - ((0 - num) \div den)

XNum(p, size) == 4 * Smaller(size) * p[1].v + TwiceDivisor * size[1]
YNum(p, size) == 2 * Smaller(size) * p[2].v

\* (the pair moved into the raster)
PixelClamped(p, size) ==
    LET x == ToInt(XNum(p, size), 2 * TwiceDivisor)
        y == ToInt(YNum(p, size), TwiceDivisor)
    IN <<IF x < 0 THEN 0 ELSE IF x >= size[1] THEN size[1] - 1 ELSE x,
         IF y < 0 THEN 0 ELSE IF y >= size[2] THEN size[2] - 1 ELSE y>>
\* the pair yielded for a point with finite coordinates
Pixel(p, size) ==
    <<ToInt(XNum(p, size), 2 * TwiceDivisor), ToInt(YNum(p, size), TwiceDivisor)>>

MaxIn == 2

Coordinates == {vec2(x, y) : x \in {0 - 6, 0 - 1, 1, 6}, y \in {0 - 1, 2}}
               \cup {<<NaN, Fin(2)>>}
Sizes == {<<21, 21>>, <<42, 21>>, <<720, 720>>, <<1000, 1000>>}

SeqsUpTo(S, n) == UNION {[1..k -> S] : k \in 0..n}

RescaleInit ==
    /\ rpc = "idle"
    /\ points = <<>>
    /\ image_size = <<21, 21>>
    /\ consumed = 0
    /\ pixels = <<>>

\* rescale_points(points, image_size): a new generator. The function keeps
\* nothing between calls, so one call is followed from its start to its end.
RescaleCall ==
    /\ rpc = "idle"
    /\ \E ps \in SeqsUpTo(Coordinates, MaxIn), size \in Sizes :
          /\ points' = ps
          /\ image_size' = size
    /\ rpc' = "running"
    /\ consumed' = 0
    /\ pixels' = <<>>

\* one iteration of the loop: scale the next point and yield its pixel;
\* int() raises on a NaN and the generator ends there
RescaleStep ==
    /\ rpc = "running"
    /\ consumed < Len(points)
    /\ consumed' = consumed + 1
    /\ LET p == points[consumed + 1]
       IN IF HasNaN(p)
          THEN /\ rpc' = "raised"
               /\ pixels' = pixels
          ELSE /\ rpc' = rpc
               /\ pixels' = Append(pixels, Pixel(p, image_size))
    /\ UNCHANGED <<points, image_size>>

\* the input is used up: the generator returns
RescaleReturn ==
    /\ rpc = "running"
    /\ consumed = Len(points)
    /\ rpc' = "exhausted"
    /\ UNCHANGED <<points, image_size, consumed, pixels>>

---------------------------------------------------------------------------
(* App *)

MaxHandled == 2

\* the Tk variables in the order set_defaults writes them: per section the four
\* entries of form, the two of offset, probability; then 'number of points'
NumVars == Len(SECTIONS) * 7 + 1
\* the scale and the entry of fourth's probability are disabled
Editable == (1..NumVars) \ {Len(SECTIONS) * 7}

\* (the condition without allow_update)
RegeneratesUngated(img, allow) == img # "None"
\* update's condition
Regenerates(img, allow) == img # "None" /\ allow

\* self.image after update
Updated(img, allow) == IF Regenerates(img, allow) THEN "drawn" ELSE img
Drawn(img, allow) == IF Regenerates(img, allow) THEN 1 ELSE 0

AppInit ==
    /\ apc = "init"
    /\ allow_update = FALSE
    /\ image = "None"
    /\ tk_vars = [v \in 1..NumVars |-> "default"]
    /\ written = 0
    /\ regenerations = 0
    /\ handled = 0
    /\ last = "none"

\* App.__init__: the variables get their traces after their first value, the
\* blank image is loaded, update is called
Construct ==
    /\ apc = "init"
    /\ apc' = "mainloop"
    /\ image' = Updated("blank", allow_update)
    /\ regenerations' = Drawn("blank", allow_update)
    /\ last' = "__init__"
    /\ UNCHANGED <<allow_update, tk_vars, written, handled>>

\* a scale or an entry writes its variable; the write trace calls update.
\* (What update draws from the values is not kept: image is "drawn".)
Edit ==
    /\ apc = "mainloop"
    /\ handled < MaxHandled
    /\ \E v \in Editable, x \in {"default", "custom"} :
          tk_vars' = [tk_vars EXCEPT ![v] = x]
    /\ image' = Updated(image, allow_update)
    /\ regenerations' = Drawn(image, allow_update)
    /\ handled' = handled + 1
    /\ last' = "edit"
    /\ UNCHANGED <<apc, allow_update, written>>

\* the refresh button: update
Refresh ==
    /\ apc = "mainloop"
    /\ handled < MaxHandled
    /\ image' = Updated(image, allow_update)
    /\ regenerations' = Drawn(image, allow_update)
    /\ handled' = handled + 1
    /\ last' = "update"
    /\ UNCHANGED <<apc, allow_update, tk_vars, written>>

\* change_bg, change_fg: with a colour picked, update; a cancelled dialog gives
\* None, which int() refuses before update is reached
ChangeColour ==
    /\ apc = "mainloop"
    /\ handled < MaxHandled
    /\ \E picked \in BOOLEAN :
          /\ image' = IF picked THEN Updated(image, allow_update) ELSE image
          /\ regenerations' = IF picked THEN Drawn(image, allow_update) ELSE 0
    /\ handled' = handled + 1
    /\ last' = "change colour"
    /\ UNCHANGED <<apc, allow_update, tk_vars, written>>

\* set_defaults, its first statement
SetDefaultsBegin ==
    /\ apc = "mainloop"
    /\ handled < MaxHandled
    /\ apc' = "defaults"
    /\ allow_update' = FALSE
    /\ written' = 0
    /\ regenerations' = 0
    /\ UNCHANGED <<image, tk_vars, handled, last>>

\* set_defaults, one var.set(...): the write trace calls update
SetDefaultsWrite ==
    /\ apc = "defaults"
    /\ written < NumVars
    /\ tk_vars' = [tk_vars EXCEPT ![written + 1] = "default"]
    /\ written' = written + 1
    /\ image' = Updated(image, allow_update)
    /\ regenerations' = regenerations + Drawn(image, allow_update)
    /\ UNCHANGED <<apc, allow_update, handled, last>>

\* set_defaults, its last two statements
SetDefaultsEnd ==
    /\ apc = "defaults"
    /\ written = NumVars
    /\ allow_update' = TRUE
    /\ image' = Updated(image, TRUE)
    /\ regenerations' = regenerations + Drawn(image, TRUE)
    /\ apc' = "mainloop"
    /\ handled' = handled + 1
    /\ last' = "set_defaults"
    /\ UNCHANGED <<tk_vars, written>>

---------------------------------------------------------------------------
(* Specifications *)

Init == GenInit /\ RescaleInit /\ AppInit

Next ==
    \/ Call /\ UNCHANGED <<rescale_vars, app_vars>>
    \/ Step /\ UNCHANGED <<rescale_vars, app_vars>>
    \/ Return /\ UNCHANGED <<rescale_vars, app_vars>>

Spec == Init /\ [][Next]_vars

RescaleNext ==
    \/ RescaleCall /\ UNCHANGED <<gen_vars, app_vars>>
    \/ RescaleStep /\ UNCHANGED <<gen_vars, app_vars>>
    \/ RescaleReturn /\ UNCHANGED <<gen_vars, app_vars>>

SpecRescale == Init /\ [][RescaleNext]_vars

AppNext ==
    \/ Construct /\ UNCHANGED <<gen_vars, rescale_vars>>
    \/ Edit /\ UNCHANGED <<gen_vars, rescale_vars>>
    \/ Refresh /\ UNCHANGED <<gen_vars, rescale_vars>>
    \/ ChangeColour /\ UNCHANGED <<gen_vars, rescale_vars>>
    \/ SetDefaultsBegin /\ UNCHANGED <<gen_vars, rescale_vars>>
    \/ SetDefaultsWrite /\ UNCHANGED <<gen_vars, rescale_vars>>
    \/ SetDefaultsEnd /\ UNCHANGED <<gen_vars, rescale_vars>>

SpecApp == Init /\ [][AppNext]_vars

---------------------------------------------------------------------------
(* Properties of fern_point_generator, checked under Spec *)

\* the point the k-th step of the current call started from
Input(k) == IF k = 1 THEN Origin ELSE emitted[k - 1]

\* C1: a call with a count n >= 0 never emits more than n points, can always
\* take its next step while it runs, and has emitted exactly n points when it
\* is exhausted (none for n = 0).
C1_EmitsExactlyN ==
    number_of_points >= 0 =>
        /\ Len(emitted) <= number_of_points
        /\ pc = "running" => (ENABLED Return \/ ENABLED Step)
        /\ pc = "running" /\ Len(emitted) = number_of_points => ENABLED Return
        /\ pc = "exhausted" => Len(emitted) = number_of_points

C1_Witness ==
    /\ pc = "exhausted"
    /\ number_of_points = 2
    /\ Len(emitted) = 2

\* C2: at every step the section applied is 'first' if u < t1, otherwise
\* 'second' if u < t2, otherwise 'third' if u < t3, otherwise 'fourth', with
\* strict comparisons, whatever the order of t1, t2, t3 and whatever the
\* 'probability' of fourth.
C2_ThresholdRule ==
    /\ Len(chosen) = Len(draws)
    /\ \A k \in 1..Len(chosen) :
          LET u == Fin(draws[k])
              below1 == FLess(u, options.first.probability)
              below2 == FLess(u, options.second.probability)
              below3 == FLess(u, options.third.probability)
          IN /\ chosen[k] \in {"first", "second", "third", "fourth"}
             /\ chosen[k] = "first" <=> below1
             /\ chosen[k] = "second" <=> ~below1 /\ below2
             /\ chosen[k] = "third" <=> ~below1 /\ ~below2 /\ below3
             /\ chosen[k] = "fourth" <=> ~below1 /\ ~below2 /\ ~below3

\* a draw equal to the first threshold goes past 'first'; thresholds out of order
C2_Witness ==
    /\ options = Unordered
    /\ Len(draws) = 2
    /\ Fin(draws[1]) = options.first.probability
    /\ chosen[1] = "third"
    /\ Fin(draws[2]) = options.third.probability
    /\ chosen[2] = "fourth"

\* C3: the point emitted at a step is M * p + b for 'first', 'second' and
\* 'third' and M * (-p) + b for 'fourth', p the point the step started from; a
\* 'fourth' that is the identity with no offset emits -p (p finite: every point
\* is, when such a 'fourth' is the only section chosen).
C3_FourthNegatesInput ==
    \A k \in 1..Len(emitted) :
        LET s == options[chosen[k]]
            p == Input(k)
        IN /\ chosen[k] # "fourth" =>
                emitted[k] = VecAdd(MatVec(s.form, p), s.offset)
           /\ chosen[k] = "fourth" =>
                emitted[k] = VecAdd(MatVec(s.form, VecNeg(p)), s.offset)
           /\ chosen[k] = "fourth" /\ s.form = Unit /\ s.offset = Origin /\ ~HasNaN(p) =>
                emitted[k] = VecNeg(p)

C3_Witness ==
    /\ options = Mirror
    /\ chosen = <<"first", "fourth">>
    /\ emitted = <<vec2(1, 1), vec2(0 - 1, 0 - 1)>>

C6_CacheTransparent ==
    /\ emitted = uncached
    /\ \A i \in 1..Len(cache) :
          cache[i].val =
              VecAdd(MatVec(cache[i].key[1], cache[i].key[2]), cache[i].key[3])
    /\ Len(cache) <= Capacity
    /\ Len(cache) <= maxsize

\* a hit in a later call, after an eviction, on a point other than the origin
C6_Witness ==
    /\ runs = 2
    /\ evicted
    /\ hit
    /\ Len(emitted) = 2
    /\ emitted[1] # Origin
    /\ emitted[2] # emitted[1]

\* C7: a call with the config, the count and the draws of the call before it
\* emits the points that call emitted.
C7_Deterministic ==
    /\ prev.valid
    /\ prev.options = options
    /\ prev.n = number_of_points
    /\ Len(draws) <= Len(prev.draws)
    /\ \A k \in 1..Len(draws) : draws[k] = prev.draws[k]
    => /\ Len(emitted) <= Len(prev.emitted)
       /\ \A k \in 1..Len(emitted) : emitted[k] = prev.emitted[k]

\* the second call repeats the first, which started from an empty cache
C7_Witness ==
    /\ prev.valid
    /\ prev.options = options
    /\ prev.n = 2
    /\ number_of_points = 2
    /\ prev.draws = draws
    /\ pc = "exhausted"
    /\ hit
    /\ emitted = prev.emitted
    /\ emitted[2] # emitted[1]

\* C9: the loop of every call starts from (0, 0), so the first point emitted
\* is the chosen transform of the origin (of its negation for 'fourth'); and
\* two steps that start from the same point with the same draw, in this call
\* or in the call before it with the same config, emit the same point.
C9_StartsAtOriginMarkov ==
    /\ pc = "running" /\ point_no = 0 => current_point = Origin
    /\ emitted # <<>> =>
          LET s == options[chosen[1]]
          IN emitted[1] = IF chosen[1] = "fourth"
                          THEN Transform(s.form, VecNeg(Origin), s.offset)
                          ELSE Transform(s.form, Origin, s.offset)
    /\ \A i, j \in 1..Len(emitted) :
          Input(i) = Input(j) /\ draws[i] = draws[j] => emitted[i] = emitted[j]
    /\ prev.valid /\ prev.options = options =>
          \A i \in 1..Len(emitted), j \in 1..Len(prev.emitted) :
              /\ Input(i) = (IF j = 1 THEN Origin ELSE prev.emitted[j - 1])
              /\ draws[i] = prev.draws[j]
              => emitted[i] = prev.emitted[j]

\* a second call after a call that ended away from the origin
C9_Witness ==
    /\ prev.valid
    /\ prev.emitted # <<>>
    /\ prev.emitted[Len(prev.emitted)] # Origin
    /\ pc = "running"
    /\ point_no = 0
    /\ current_point = Origin

---------------------------------------------------------------------------
(* Properties of rescale_points, checked under SpecRescale *)

\* q is num / den (den > 0) rounded down
IsFloor(q, num, den) == den * q <= num /\ num < den * q + den
\* q is num / den (den > 0) with its fraction cut off
IsTruncation(q, num, den) ==
    IF num >= 0
    THEN den * q <= num /\ num < den * q + den
    ELSE den * q - den < num /\ num <= den * q
\* q is less than 1 away from num / den (den > 0)
IsNear(q, num, den) == den * q - den < num /\ num < den * q + den

InRaster(px, size) ==
    /\ 0 <= px[1] /\ px[1] < size[1]
    /\ 0 <= px[2] /\ px[2] < size[2]

\* C4 as claimed: every pixel emitted is
\* (floor(x * factor + width / 2), floor(y * factor)), factor = min(width, height) / 10.5.
C4_FloorProjection ==
    \A k \in 1..Len(pixels) :
        /\ IsFloor(pixels[k][1], XNum(points[k], image_size), 2 * TwiceDivisor)
        /\ IsFloor(pixels[k][2], YNum(points[k], image_size), TwiceDivisor)

\* C4 as amended: every pixel emitted is x * factor + width / 2 and y * factor,
\* factor = min(width, height) / 10.5, each with its fraction cut off (rounded
\* toward zero, which is the floor only of a coordinate that is not negative);
\* (1, 2) at size (1000, 1000) gives (595, 190).
C4_TruncatedProjection ==
    /\ \A k \in 1..Len(pixels) :
          /\ IsTruncation(pixels[k][1], XNum(points[k], image_size), 2 * TwiceDivisor)
          /\ IsTruncation(pixels[k][2], YNum(points[k], image_size), TwiceDivisor)
    /\ pixels # <<>> /\ points[1] = vec2(1, 2) /\ image_size = <<1000, 1000>> =>
          pixels[1] = <<595, 190>>

\* a point whose scaled coordinates are both negative and not whole
C4_Witness ==
    /\ image_size = <<1000, 1000>>
    /\ points = <<vec2(0 - 6, 0 - 1), vec2(1, 2)>>
    /\ pixels = <<<<0 - 71, 0 - 95>>, <<595, 190>>>>

\* C8 as claimed: when the generator has ended, it has emitted one pixel per
\* input point, the k-th for the k-th point, none moved into the raster.
C8_OnePixelPerPoint ==
    rpc \in {"exhausted", "raised"} =>
        /\ Len(pixels) = Len(points)
        /\ \A k \in 1..Len(pixels) :
              /\ IsNear(pixels[k][1], XNum(points[k], image_size), 2 * TwiceDivisor)
              /\ IsNear(pixels[k][2], YNum(points[k], image_size), TwiceDivisor)

\* C8 as amended: the generator emits one pixel per input point, in input
\* order and less than 1 away from the scaled point, in the raster or not, up
\* to the first point with a non-finite coordinate: there int() raises and the
\* generator ends. An input of finite points gives as many pixels as points.
C8_OnePixelPerFinitePoint ==
    /\ \A k \in 1..Len(pixels) :
          /\ ~HasNaN(points[k])
          /\ IsNear(pixels[k][1], XNum(points[k], image_size), 2 * TwiceDivisor)
          /\ IsNear(pixels[k][2], YNum(points[k], image_size), TwiceDivisor)
    /\ rpc = "running" => Len(pixels) = consumed
    /\ rpc = "running" =>
          (ENABLED RescaleStep \/ ENABLED RescaleReturn)
    /\ rpc = "exhausted" =>
          /\ Len(pixels) = Len(points)
          /\ \A k \in 1..Len(points) : ~HasNaN(points[k])
    /\ rpc = "raised" =>
          /\ HasNaN(points[consumed])
          /\ Len(pixels) = consumed - 1
    /\ (\A k \in 1..Len(points) : ~HasNaN(points[k])) => rpc # "raised"

\* two finite points, the pixels of both outside the raster
C8_Witness ==
    /\ rpc = "exhausted"
    /\ Len(points) = 2
    /\ Len(pixels) = 2
    /\ points[1] # points[2]
    /\ ~InRaster(pixels[1], image_size)
    /\ ~InRaster(pixels[2], image_size)
    /\ pixels[1][1] > image_size[1]
    /\ pixels[2][1] < 0

---------------------------------------------------------------------------
(* Properties of App, checked under SpecApp *)

====
